---------------------------- MODULE Spec2Model ----------------------------
(***************************************************************************)
(* A model of shaq, a single-producer/single-consumer queue that lives in  *)
(* a memory-mapped file (src/src/lib.rs, src/src/shmem.rs).                *)
(*                                                                         *)
(* The region is the backing file `fs' whose bytes are the header          *)
(* (`header') followed by the item slots (`buffer').  A Producer and a     *)
(* Consumer handle each wrap the region with two private cached cursors.   *)
(* `usize' is modelled as a WordBits-bit unsigned integer; every           *)
(* arithmetic operation of the code keeps that width.                      *)
(***************************************************************************)
EXTENDS Integers, Sequences, FiniteSets

VARIABLES
    build,      \* "debug" (overflow checks on) or "release" (wrapping)
    arg,        \* arguments of the pending call of a pure function
    fs,         \* the backing file at the path: NoFile or [len, T]
    header,     \* SharedQueueHeader stored at offset 0 of the region
    buffer,     \* the item slots that follow the header
    producer,   \* the Producer handle (SharedQueue<T>), or NoHandle
    consumer,   \* the Consumer handle (SharedQueue<T>), or NoHandle
    maps,       \* the mappings mmap has returned so far
    last,       \* the last call made and what it returned
    hist,       \* history of the run (who reserved, committed, read what)
    race        \* the create call in progress, step by step, and the calls
                \* that have failed with InvalidBufferSize

vars == <<build, arg, fs, header, buffer, producer, consumer, maps, last, hist,
          race>>

---------------------------------------------------------------------------
(* Bounds of the model *)

\* usize has WordBits bits
WordBits == 10
\* the test queues hold at most MaxSlots items' worth of bytes
MaxSlots == 4
\* at most MaxItems successful reserves in one run
MaxItems == 6
\* at most MaxMaps calls of mmap in one run
MaxMaps == 2
\* at most MaxLifeItems successful reserves in a run that creates and joins
MaxLifeItems == 1

Word == 2 ^ WordBits
Words == 0 .. (Word - 1)

---------------------------------------------------------------------------
(* Machine arithmetic *)

RECURSIVE BitAnd(_, _)
BitAnd(a, b) ==
    IF a = 0 \/ b = 0 THEN 0
    ELSE (a % 2) * (b % 2) + 2 * BitAnd(a \div 2, b \div 2)

\* !x on a word
BitNot(a) == (Word - 1) - a

wrapping_add(a, b) == (a + b) % Word

\* a subtraction that stops at 0 instead of wrapping
saturating_sub(a, b) == IF a >= b THEN a - b ELSE 0

wrapping_sub(a, b) == (a - b + Word) % Word

\* usize::is_power_of_two
is_power_of_two(x) == x # 0 /\ BitAnd(x, x - 1) = 0

\* usize::next_power_of_two: the smallest power of two >= x; Word stands for
\* a result that does not fit the word
RECURSIVE PowerOfTwoFrom(_, _)
PowerOfTwoFrom(p, x) == IF p >= x THEN p ELSE PowerOfTwoFrom(2 * p, x)

next_power_of_two(x) == PowerOfTwoFrom(1, x)

---------------------------------------------------------------------------
(* Layout *)

\* size_of::<SharedQueueHeader>(): two 64-byte aligned cursors and a usize,
\* padded to the 64-byte alignment of the struct
HEADER_SIZE == 192

\* An item type T is its size_of and align_of
U8 == [size |-> 1, align |-> 1]
Bytes3 == [size |-> 3, align |-> 1]
AtomicU64 == [size |-> 8, align |-> 8]
Triple64 == [size |-> 24, align |-> 8]
Aligned128 == [size |-> 128, align |-> 128]
ItemTypes == {U8, Bytes3, AtomicU64, Triple64, Aligned128}

\* the file at the path: its length and the item type it was created for
NoFile == [len |-> -1, T |-> [size |-> 0, align |-> 0]]
File(len, T) == [len |-> len, T |-> T]
NoHandle == [T |-> [size |-> 0, align |-> 0], buffer_mask |-> 0,
             cached_write |-> 0, cached_read |-> 0, buffer |-> 0, map |-> 0]

\* results
Ret(op, ret, slot, val) == [op |-> op, ret |-> ret, slot |-> slot, val |-> val]
NoSlot == -1

Ok(items) == [tag |-> "ok", items |-> items]
Err(e) == [tag |-> e, items |-> 0]

\* the buffer_offset of calculate_buffer_size_in_items: the header size
\* rounded up to the alignment of T
buffer_offset(T) ==
    LET alignment == T.align
    IN  BitAnd(HEADER_SIZE + alignment - 1, BitNot(alignment - 1))

\* SharedQueueHeader::calculate_buffer_size_in_items::<T>(file_size)
calculate_buffer_size_in_items(T, file_size, profile) ==
    IF file_size < buffer_offset(T) THEN Err("InvalidBufferSize")
        ELSE
        LET buffer_size_in_bytes == file_size - buffer_offset(T)
            buffer_size_in_items == buffer_size_in_bytes \div T.size
        IN  IF is_power_of_two(buffer_size_in_items) THEN Ok(buffer_size_in_items)
            ELSE
            LET npt == next_power_of_two(buffer_size_in_items)
            IN  IF npt >= Word /\ profile = "debug" THEN Err("panic")
                ELSE
                LET rounded == (npt % Word) \div 2
                IN  IF rounded = 0 THEN Err("InvalidBufferSize") ELSE Ok(rounded)

\* initialize that leaves a stale write cursor in the header
initialize_stale_write(buffer_size_in_items) ==
    [write |-> 1, read |-> 0, buffer_size |-> buffer_size_in_items]

\* SharedQueueHeader::initialize
initialize(buffer_size_in_items) ==
    [write |-> 0, read |-> 0, buffer_size |-> buffer_size_in_items]

\* load_write that never refreshes the cached cursor
load_write_never(queue, hdr) == queue

\* SharedQueue::load_write
load_write(queue, hdr) == [queue EXCEPT !.cached_write = hdr.write]

\* load_read that never refreshes the cached cursor
load_read_never(queue, hdr) == queue

\* SharedQueue::load_read
load_read(queue, hdr) == [queue EXCEPT !.cached_read = hdr.read]

\* ptr.align_offset(align): the bytes to add to reach the next multiple
align_offset(ptr, align) == (align - (ptr % align)) % align

\* SharedQueue::buffer_from_header: the offset of slot 0 from the start of
\* the mapping, which mmap returns page-aligned
buffer_from_header(T) == HEADER_SIZE + align_offset(HEADER_SIZE, T.align)

\* from_header that leaves both cached cursors at 0
from_header_fresh(T, hdr, map) ==
    [T |-> T, buffer_mask |-> hdr.buffer_size - 1,
     cached_write |-> 0, cached_read |-> 0,
     buffer |-> buffer_from_header(T), map |-> map]

\* SharedQueue::from_header
from_header(T, hdr, map) ==
    LET queue == [T |-> T, buffer_mask |-> hdr.buffer_size - 1,
                  cached_write |-> 0, cached_read |-> 0,
                  buffer |-> buffer_from_header(T), map |-> map]
    IN  load_read(load_write(queue, hdr), hdr)

\* SharedQueue::mask
mask(queue, index) == BitAnd(index, queue.buffer_mask)

---------------------------------------------------------------------------
(* History *)

NoHist ==
    [produced |-> <<>>,   \* slot returned by the k-th successful reserve
     written |-> 0,       \* items whose payload has been written
     committed |-> 0,     \* items reserved before the last commit
     observed |-> 0,      \* items committed before the last Consumer sync
     consumed |-> <<>>,   \* [slot, val] returned by the k-th successful try_read
     finalized |-> 0,     \* items read before the last finalize
     pseen |-> 0,         \* items finalized before the last Producer sync
     sawfull |-> FALSE]   \* reserve has returned None since the last Producer sync

\* a call that failed with InvalidBufferSize: its item type and size
\* argument, the length and stored capacity of the file it found, and
\* whether it has failed so once or more than once in a row
FailedCall(T, size, len, cap, tries) ==
    [T |-> T, size |-> size, len |-> len, cap |-> cap, tries |-> tries]
NoCall == FailedCall([size |-> 0, align |-> 0], 0, -1, 0, 0)

\* the same call failing again
Failed(before, T, size, len, cap) ==
    IF before = FailedCall(T, size, len, cap, before.tries)
    THEN FailedCall(T, size, len, cap, 2)
    ELSE FailedCall(T, size, len, cap, 1)

\* no create call is in progress and none has failed
NoRace == [pc |-> "none", T |-> [size |-> 0, align |-> 0], size |-> 0,
           items |-> 0, pending |-> {},
           failed_create |-> NoCall, failed_join |-> NoCall]

reserved == Len(hist.produced)

\* the payload the producer writes into item k
Payload(k) == 10 * k

\* slots the Producer holds a write pointer to: reserved, not yet committed
ProducerSlots == { hist.produced[k] : k \in (hist.committed + 1) .. reserved }

\* slots the Consumer holds a read pointer to: read, not yet finalized
ConsumerSlots ==
    { hist.consumed[k].slot : k \in (hist.finalized + 1) .. Len(hist.consumed) }

\* both sides use the region with the item type it was created for
SameItemType(q) == fs = NoFile \/ q.T = fs.T

---------------------------------------------------------------------------
(* Producer *)

\* reserve whose fullness test is off by one
ReserveFullOffByOne(q) ==
    wrapping_sub(q.cached_write, q.cached_read) > header.buffer_size

\* reserve whose fullness test reads the header's read cursor, not the cached
ReserveFullUncached(q) ==
    wrapping_sub(q.cached_write, header.read) >= header.buffer_size

ReserveFull(q) ==
    wrapping_sub(q.cached_write, q.cached_read) >= header.buffer_size

\* reserve that indexes the slot by the cached read cursor
reserved_index_by_read(q) == mask(q, q.cached_read)

reserved_index(q) == mask(q, q.cached_write)

\* Producer::reserve, in a run of at most max_items successful reserves
ReserveUpTo(max_items) ==
    /\ producer # NoHandle
    /\ SameItemType(producer)
    /\ IF ReserveFull(producer)
       THEN /\ last' = Ret("reserve", "none", NoSlot, 0)
            /\ hist' = [hist EXCEPT !.sawfull = TRUE]
            /\ UNCHANGED producer
       ELSE /\ reserved < max_items
            /\ producer' = [producer EXCEPT !.cached_write = wrapping_add(@, 1)]
            /\ hist' = [hist EXCEPT
                          !.produced = Append(@, reserved_index(producer))]
            /\ last' = Ret("reserve", "some", reserved_index(producer), 0)
    /\ UNCHANGED <<race, build, arg, fs, header, buffer, consumer, maps>>

Reserve == ReserveUpTo(MaxItems)

\* the caller stores the payload through the pointer reserve returned
WriteSlot ==
    /\ producer # NoHandle
    /\ SameItemType(producer)
    /\ hist.written < reserved
    /\ LET k == hist.written + 1
       IN  /\ buffer' = [buffer EXCEPT ![hist.produced[k]] = Payload(k)]
           /\ hist' = [hist EXCEPT !.written = k]
           /\ last' = Ret("write", "ok", hist.produced[k], Payload(k))
    /\ UNCHANGED <<race, build, arg, fs, header, producer, consumer, maps>>

\* Producer::commit; the caller has finished writing the reserved slots
Commit ==
    /\ producer # NoHandle
    /\ SameItemType(producer)
    /\ hist.written = reserved
    /\ header' = [header EXCEPT !.write = producer.cached_write]
    /\ hist' = [hist EXCEPT !.committed = reserved]
    /\ last' = Ret("commit", "ok", NoSlot, 0)
    /\ UNCHANGED <<race, build, arg, fs, buffer, producer, consumer, maps>>

\* Producer::sync
ProducerSync ==
    /\ producer # NoHandle
    /\ SameItemType(producer)
    /\ producer' = load_read(producer, header)
    /\ hist' = [hist EXCEPT !.pseen = hist.finalized, !.sawfull = FALSE]
    /\ last' = Ret("producer_sync", "ok", NoSlot, 0)
    /\ UNCHANGED <<race, build, arg, fs, header, buffer, consumer, maps>>

---------------------------------------------------------------------------
(* Consumer *)

\* try_read that tests the header's write cursor instead of the cached one
ReadEmptyUncached(q) == q.cached_read = header.write

ReadEmpty(q) == q.cached_read = q.cached_write

\* try_read that indexes the slot by the cached write cursor
read_index_by_write(q) == mask(q, q.cached_write)

read_index(q) == mask(q, q.cached_read)

\* Consumer::try_read; the caller loads the payload through the pointer
TryRead ==
    /\ consumer # NoHandle
    /\ SameItemType(consumer)
    /\ IF ReadEmpty(consumer)
       THEN /\ last' = Ret("try_read", "none", NoSlot, 0)
            /\ UNCHANGED <<consumer, hist>>
       ELSE LET slot == read_index(consumer)
            IN  /\ consumer' = [consumer EXCEPT
                                  !.cached_read = wrapping_add(@, 1)]
                /\ hist' = [hist EXCEPT !.consumed =
                              Append(@, [slot |-> slot, val |-> buffer[slot]])]
                /\ last' = Ret("try_read", "some", slot, buffer[slot])
    /\ UNCHANGED <<race, build, arg, fs, header, buffer, producer, maps>>

\* Consumer::finalize
Finalize ==
    /\ consumer # NoHandle
    /\ SameItemType(consumer)
    /\ header' = [header EXCEPT !.read = consumer.cached_read]
    /\ hist' = [hist EXCEPT !.finalized = Len(hist.consumed)]
    /\ last' = Ret("finalize", "ok", NoSlot, 0)
    /\ UNCHANGED <<race, build, arg, fs, buffer, producer, consumer, maps>>

\* a Consumer sync that also stores its cached read cursor, as finalize does
ConsumerSyncFinalizing ==
    /\ consumer # NoHandle
    /\ SameItemType(consumer)
    /\ consumer' = load_write(consumer, header)
    /\ header' = [header EXCEPT !.read = consumer.cached_read]
    /\ hist' = [hist EXCEPT !.observed = hist.committed,
                            !.finalized = Len(hist.consumed)]
    /\ last' = Ret("consumer_sync", "ok", NoSlot, 0)
    /\ UNCHANGED <<race, build, arg, fs, buffer, producer, maps>>

\* Consumer::sync
ConsumerSync ==
    /\ consumer # NoHandle
    /\ SameItemType(consumer)
    /\ consumer' = load_write(consumer, header)
    /\ hist' = [hist EXCEPT !.observed = hist.committed]
    /\ last' = Ret("consumer_sync", "ok", NoSlot, 0)
    /\ UNCHANGED <<race, build, arg, fs, header, buffer, producer, maps>>

---------------------------------------------------------------------------
(* One Producer and one Consumer over a freshly initialized header, as     *)
(* tests::create_test_queue sets them up over a zeroed byte buffer.        *)

TestBufferSizes == { HEADER_SIZE + n * AtomicU64.size : n \in 1 .. MaxSlots }

NoArg == [T |-> AtomicU64, file_size |-> 0]

Init ==
    \E file_size \in TestBufferSizes :
        LET items == calculate_buffer_size_in_items(AtomicU64, file_size, "release")
        IN  /\ items.tag = "ok"
            /\ build = "release"
            /\ arg = NoArg
            /\ fs = NoFile
            /\ header = initialize(items.items)
            /\ buffer = [i \in 0 .. (items.items - 1) |-> 0]
            /\ producer = from_header(AtomicU64, header, 0)
            /\ consumer = from_header(AtomicU64, header, 0)
            /\ maps = <<>>
            /\ last = Ret("create_test_queue", "ok", NoSlot, items.items)
            /\ hist = NoHist
            /\ race = NoRace
    /\ race = NoRace

Next ==
    \/ Reserve
    \/ WriteSlot
    \/ Commit
    \/ ProducerSync
    \/ TryRead
    \/ Finalize
    \/ ConsumerSync

Spec == Init /\ [][Next]_vars

capacity == header.buffer_size

---------------------------------------------------------------------------
(* Claims about one Producer and one Consumer (Spec) *)

\* C1: in every reachable state the header cursors satisfy
\* 0 <= write - read <= capacity, the subtraction taken with wraparound.
C1_OccupancyWithinCapacity ==
    /\ 0 <= wrapping_sub(header.write, header.read)
    /\ wrapping_sub(header.write, header.read) <= capacity

\* the queue is full again after slots were released and reused
C1_Witness ==
    /\ header.read > 0
    /\ wrapping_sub(header.write, header.read) = capacity

\* C2: an item is returned by try_read only after its commit and a later
\* Consumer sync: the number of items read never exceeds the number of items
\* committed before the last Consumer sync; try_read returns empty exactly
\* when every such item has been read, and otherwise returns the slot the
\* item was reserved in, holding the payload written.
C2_ReadableOnlyAfterCommitAndSync ==
    /\ Len(hist.consumed) <= hist.observed
    /\ hist.observed <= hist.committed
    /\ (last.op = "try_read" /\ last.ret = "none")
           => Len(hist.consumed) = hist.observed
    /\ (last.op = "try_read" /\ last.ret = "some")
           => /\ last.slot = hist.produced[Len(hist.consumed)]
              /\ last.val = Payload(Len(hist.consumed))

\* an item is written and committed, the Consumer has synced and read it
C2_Witness ==
    /\ last.op = "try_read"
    /\ last.ret = "some"
    /\ last.val = Payload(2)
    /\ hist.committed > hist.observed

\* C3: the slots the Producer may write (reserved, not committed) and the
\* slots the Consumer may read (returned by try_read, not finalized) are
\* disjoint, and every slot try_read returned belongs to a committed item.
C3_ProducerAndConsumerSlotsDisjoint ==
    /\ ProducerSlots \cap ConsumerSlots = {}
    /\ Len(hist.consumed) <= hist.committed

\* both sides hold pointers while the ring is full and has wrapped
C3_Witness ==
    /\ ProducerSlots # {}
    /\ ConsumerSlots # {}
    /\ reserved > capacity
    /\ Cardinality(ProducerSlots \cup ConsumerSlots) = capacity

\* C4: the k-th successful try_read returns the slot of the k-th successful
\* reserve with the payload written into it: items are delivered in order,
\* none skipped, none repeated.
C4_Fifo ==
    /\ Len(hist.consumed) <= reserved
    /\ \A k \in 1 .. Len(hist.consumed) :
          /\ hist.consumed[k].slot = hist.produced[k]
          /\ hist.consumed[k].val = Payload(k)

\* more items than slots have been delivered
C4_Witness ==
    /\ Len(hist.consumed) > capacity
    /\ Len(hist.consumed) = MaxItems

\* C5: reserve returns full exactly when capacity items are outstanding in
\* the Producer's view (reserved minus those finalized before its last
\* sync): after capacity reserves with no finalize the next reserve is full,
\* and after a finalize and a Producer sync the next reserve succeeds.
C5_FullAtCapacityUntilFinalizeAndSync ==
    /\ reserved - hist.pseen <= capacity
    /\ hist.finalized = 0 => reserved <= capacity
    /\ (last.op = "reserve" /\ last.ret = "none")
           => reserved - hist.pseen = capacity

\* capacity items committed, one released and seen, the next reserve succeeds
C5_Witness ==
    /\ last.op = "reserve"
    /\ last.ret = "some"
    /\ reserved = capacity + 1
    /\ hist.committed = capacity
    /\ hist.pseen >= 1

\* C6: while no item has been committed, try_read returns empty.
C6_EmptyBeforeFirstCommit ==
    hist.committed = 0
        => /\ Len(hist.consumed) = 0
           /\ last.op = "try_read" => last.ret = "none"

\* a slot is reserved and written, not committed, and try_read returned empty
C6_Witness ==
    /\ hist.committed = 0
    /\ hist.written >= 1
    /\ consumer.cached_read = 0
    /\ last.op = "try_read"
    /\ last.ret = "none"

---------------------------------------------------------------------------
(* The capacity calculation alone (SpecCalc): one call of                  *)
(* calculate_buffer_size_in_items::<T>(file_size) for every file size a    *)
(* word can hold, every item type and both build profiles.                 *)

Builds == {"debug", "release"}

Idle == Ret("idle", "", NoSlot, 0)

NoHeader == [write |-> 0, read |-> 0, buffer_size |-> 0]
NoBuffer == [i \in {} |-> 0]

InitCalc ==
    /\ build \in Builds
    /\ arg \in [T : ItemTypes, file_size : Words]
    /\ fs = NoFile
    /\ header = NoHeader
    /\ buffer = NoBuffer
    /\ producer = NoHandle
    /\ consumer = NoHandle
    /\ maps = <<>>
    /\ last = Idle
    /\ hist = NoHist
    /\ race = NoRace

Calculate ==
    /\ last = Idle
    /\ LET r == calculate_buffer_size_in_items(arg.T, arg.file_size, build)
       IN  last' = Ret("calculate", r.tag, NoSlot, r.items)
    /\ UNCHANGED <<race, build, arg, fs, header, buffer, producer, consumer, maps, hist>>

NextCalc == Calculate

SpecCalc == InitCalc /\ [][NextCalc]_vars

\* align_up(x, a) and the powers of two a word can hold, as numbers
AlignUp(x, a) == ((x + a - 1) \div a) * a
PowersOfTwo == { 2 ^ k : k \in 0 .. (WordBits - 1) }

\* N items of T fit a region of file_size bytes behind the aligned header
Fits(N, T, file_size) ==
    N * T.size <= file_size - AlignUp(HEADER_SIZE, T.align)

\* C7: calculate_buffer_size_in_items returns the largest power of two N
\* with N * item_size <= region_size - align_up(header_size, item_align),
\* and fails with InvalidBufferSize exactly when no such N >= 1 exists
\* (which includes a region smaller than the aligned header).
C7_LargestPowerOfTwoThatFits ==
    last.op = "calculate" =>
        LET fitting == { N \in PowersOfTwo : Fits(N, arg.T, arg.file_size) }
        IN  IF fitting = {}
            THEN last.ret = "InvalidBufferSize"
            ELSE /\ last.ret = "ok"
                 /\ last.val \in fitting
                 /\ \A N \in fitting : N <= last.val

\* C7, where it holds: the statement of C7 for every region whose item
\* count region_size - offset / item_size is at most the largest power of
\* two of the word, or is itself a power of two.
C7_HoldsWithoutOverflow ==
    LET offset == AlignUp(HEADER_SIZE, arg.T.align)
        count == (arg.file_size - offset) \div arg.T.size
    IN  (arg.file_size < offset \/ count <= 2 ^ (WordBits - 1))
            => C7_LargestPowerOfTwoThatFits

\* a count that is not a power of two was rounded down
C7_HoldsWithoutOverflow_Witness ==
    /\ last.op = "calculate"
    /\ last.ret = "ok"
    /\ arg.T = Triple64
    /\ last.val = 4
    /\ ~Fits(5, arg.T, arg.file_size) /\ Fits(4, arg.T, arg.file_size)

---------------------------------------------------------------------------
(* The region's life: create, join and drop of the handles *)

\* mmap succeeds or fails as the system decides; a length of 0 is refused
MmapOutcomes == {"mapped", "mmap_fails"}

\* a mapping mmap returned: who holds its address, and whether it is mapped
Mapping(owner, len) == [owner |-> owner, mapped |-> TRUE, len |-> len]

\* create_file opening with create_new over an existing file, kept
create_new_overwrites(file) == FALSE

\* shmem::create_file: create_new(true) refuses an existing file
create_new_fails(file) == file # NoFile

\* create that opens the file before it calculates the capacity
create_file_first(T, size, mmap) ==
    LET items == calculate_buffer_size_in_items(T, size, build)
        kept == [ret |-> "AlreadyExists", fs |-> fs, header |-> header,
                 buffer |-> buffer, mapped |-> FALSE]
        left == [ret |-> items.tag, fs |-> File(size, T), header |-> NoHeader,
                 buffer |-> NoBuffer, mapped |-> FALSE]
    IN  IF create_new_fails(fs) THEN kept
        ELSE IF items.tag # "ok" THEN left
        ELSE IF mmap = "mmap_fails" THEN [left EXCEPT !.ret = "Mmap"]
        ELSE [ret |-> "ok", fs |-> File(size, T),
              header |-> initialize(items.items),
              buffer |-> [i \in 0 .. (items.items - 1) |-> 0],
              mapped |-> TRUE]

\* SharedQueueHeader::create::<T>(path, size), then Self::from_header: what
\* the call returns, and the file, header, slots and mapping it leaves
create(T, size, mmap) ==
    LET items == calculate_buffer_size_in_items(T, size, build)
        kept == [ret |-> items.tag, fs |-> fs, header |-> header,
                 buffer |-> buffer, mapped |-> FALSE]
    IN  IF items.tag # "ok" THEN kept
        ELSE IF create_new_fails(fs) THEN [kept EXCEPT !.ret = "AlreadyExists"]
        ELSE IF mmap = "mmap_fails"
             THEN [ret |-> "Mmap", fs |-> File(size, T), header |-> NoHeader,
                   buffer |-> NoBuffer, mapped |-> FALSE]
        ELSE [ret |-> "ok", fs |-> File(size, T),
              header |-> initialize(items.items),
              buffer |-> [i \in 0 .. (items.items - 1) |-> 0],
              mapped |-> TRUE]

\* a validation that also rejects a queue that fills the file exactly
join_validate_strict(T, hdr, file_size, profile) ==
    IF hdr.buffer_size = 0 \/ ~is_power_of_two(hdr.buffer_size)
    THEN "InvalidBufferSize"
    ELSE IF hdr.buffer_size * T.size + HEADER_SIZE >= file_size
         THEN "InvalidBufferSize"
         ELSE "ok"

\* the header validation of SharedQueueHeader::join::<T>
join_validate(T, hdr, file_size, profile) ==
    IF hdr.buffer_size = 0 \/ ~is_power_of_two(hdr.buffer_size)
    THEN "InvalidBufferSize"
    ELSE LET product == hdr.buffer_size * T.size
         IN  IF product >= Word /\ profile = "debug" THEN "panic"
             ELSE LET sum == (product % Word) + HEADER_SIZE
                  IN  IF sum >= Word /\ profile = "debug" THEN "panic"
                      ELSE IF (sum % Word) > file_size
                           THEN "InvalidBufferSize"
                           ELSE "ok"

\* SharedQueueHeader::join::<T>(path): what the call returns and whether it
\* has mapped the file
join(T, mmap) ==
    IF fs = NoFile THEN [ret |-> "NotFound", mapped |-> FALSE]
    ELSE IF fs.len = 0 \/ mmap = "mmap_fails"
         THEN [ret |-> "Mmap", mapped |-> FALSE]
    ELSE [ret |-> join_validate(T, header, fs.len, build), mapped |-> TRUE]

\* the history a handle attached now starts from: what was reserved and not
\* committed, or read and not finalized, by a handle that is gone is forgotten
HistAtAttach(role) ==
    IF role = "producer"
    THEN [hist EXCEPT !.produced = SubSeq(@, 1, hist.committed),
                      !.written = hist.committed,
                      !.pseen = hist.finalized,
                      !.sawfull = FALSE]
    ELSE [hist EXCEPT !.consumed = SubSeq(@, 1, hist.finalized),
                      !.observed = hist.committed]

\* Producer::create / Consumer::create
Create(role, T, size, mmap) ==
    \E out \in {create(T, size, mmap)} :
    LET id == Len(maps) + 1
        handle == IF out.ret = "ok" THEN from_header(T, out.header, id)
                  ELSE NoHandle
    IN  /\ out.mapped => Len(maps) < MaxMaps
        /\ fs' = out.fs
        /\ header' = out.header
        /\ buffer' = out.buffer
        /\ maps' = IF out.mapped THEN Append(maps, Mapping(role, size)) ELSE maps
        /\ IF role = "producer"
           THEN producer' = handle /\ UNCHANGED consumer
           ELSE consumer' = handle /\ UNCHANGED producer
        /\ hist' = IF out.ret = "ok" THEN NoHist ELSE hist
        /\ arg' = [T |-> T, file_size |-> size]
        /\ last' = Ret("create", out.ret, NoSlot, out.header.buffer_size)
        /\ UNCHANGED <<race, build>>

\* Producer::join / Consumer::join, in a run of at most max_maps mappings
JoinUpTo(max_maps, role, T, mmap) ==
    \E out \in {join(T, mmap)} :
    LET id == Len(maps) + 1
        handle == IF out.ret = "ok" THEN from_header(T, header, id)
                  ELSE NoHandle
        owner == IF out.ret = "ok" THEN role ELSE "none"
    IN  /\ out.mapped => Len(maps) < max_maps
        /\ maps' = IF out.mapped THEN Append(maps, Mapping(owner, fs.len))
                   ELSE maps
        /\ IF role = "producer"
           THEN producer' = handle /\ UNCHANGED consumer
           ELSE consumer' = handle /\ UNCHANGED producer
        /\ hist' = IF out.ret = "ok" THEN HistAtAttach(role) ELSE hist
        /\ arg' = [T |-> T, file_size |-> fs.len]
        /\ last' = Ret("join", out.ret, NoSlot, header.buffer_size)
        /\ UNCHANGED <<build, fs, header, buffer>>

Join(role, T, mmap) == JoinUpTo(MaxMaps, role, T, mmap) /\ UNCHANGED race

\* a handle goes out of scope: neither Producer nor Consumer nor
\* SharedQueue implements Drop, so nothing is unmapped
Disowned(id) == [maps EXCEPT ![id].owner = "none"]

\* sizes a region is created with
CreateSizes == {HEADER_SIZE - 1, HEADER_SIZE + 2, HEADER_SIZE + 8}

LifeTypes == {U8, AtomicU64}

CreateProducer ==
    /\ producer = NoHandle
    /\ \E T \in LifeTypes, size \in CreateSizes, mmap \in MmapOutcomes :
           Create("producer", T, size, mmap)

CreateConsumer ==
    /\ consumer = NoHandle
    /\ \E T \in LifeTypes, size \in CreateSizes, mmap \in MmapOutcomes :
           Create("consumer", T, size, mmap)

JoinProducerOf(types) ==
    /\ producer = NoHandle
    /\ \E T \in types, mmap \in MmapOutcomes : Join("producer", T, mmap)

JoinConsumerOf(types) ==
    /\ consumer = NoHandle
    /\ \E T \in types, mmap \in MmapOutcomes : Join("consumer", T, mmap)

JoinProducer == JoinProducerOf(LifeTypes)

JoinConsumer == JoinConsumerOf(LifeTypes)

DropProducer ==
    /\ producer # NoHandle
    /\ producer' = NoHandle
    /\ maps' = Disowned(producer.map)
    /\ last' = Ret("drop_producer", "ok", NoSlot, 0)
    /\ UNCHANGED <<race, build, arg, fs, header, buffer, consumer, hist>>

DropConsumer ==
    /\ consumer # NoHandle
    /\ consumer' = NoHandle
    /\ maps' = Disowned(consumer.map)
    /\ last' = Ret("drop_consumer", "ok", NoSlot, 0)
    /\ UNCHANGED <<race, build, arg, fs, header, buffer, producer, hist>>

\* no size of CreateSizes overflows a word, so the build profile is immaterial
InitLife ==
    /\ build = "release"
    /\ arg = NoArg
    /\ fs = NoFile
    /\ header = NoHeader
    /\ buffer = NoBuffer
    /\ producer = NoHandle
    /\ consumer = NoHandle
    /\ maps = <<>>
    /\ last = Idle
    /\ hist = NoHist
    /\ race = NoRace

NextLife ==
    \/ CreateProducer
    \/ CreateConsumer
    \/ JoinProducer
    \/ JoinConsumer
    \/ DropProducer
    \/ DropConsumer
    \/ ReserveUpTo(MaxLifeItems)
    \/ WriteSlot
    \/ Commit
    \/ ProducerSync
    \/ TryRead
    \/ Finalize
    \/ ConsumerSync

SpecLife == InitLife /\ [][NextLife]_vars

\* C9: create on a name whose backing object already exists fails with the
\* already-exists I/O error and leaves the object untouched: its length,
\* header cursors, capacity and slot contents are unchanged.
C9_CreateOnExistingFailsAlreadyExists ==
    [][(fs # NoFile /\ last'.op = "create")
          => /\ last'.ret = "AlreadyExists"
             /\ UNCHANGED <<fs, header, buffer>>]_vars

\* C9 as amended: create on a name whose backing object already exists
\* always fails, maps nothing, returns no handle and leaves the object
\* untouched; the error is the already-exists I/O error when the capacity
\* calculation for (size, T) succeeds, and otherwise the failure of that
\* calculation, which is reported before the file is opened.
C9_CreateOnExistingFailsUntouched ==
    [][(fs # NoFile /\ last'.op = "create")
          => LET items == calculate_buffer_size_in_items(
                              arg'.T, arg'.file_size, build)
             IN  /\ last'.ret = IF items.tag = "ok" THEN "AlreadyExists"
                                ELSE items.tag
                 /\ UNCHANGED <<fs, header, buffer, maps, producer, consumer>>]_vars

\* a second create was refused on a queue that holds a committed item
C9_Witness ==
    /\ last.op = "create"
    /\ last.ret = "AlreadyExists"
    /\ header.write = 1
    /\ \E i \in DOMAIN buffer : buffer[i] = Payload(1)
    /\ consumer # NoHandle

\* C10: no mapping made by create or join stays mapped once the handle that
\* owned it is gone or the call that made it has failed.
C10_NoMappingOutlivesItsOwner ==
    \A id \in 1 .. Len(maps) :
        maps[id].owner = "none" => ~maps[id].mapped

---------------------------------------------------------------------------
(* join alone, on a file whose header holds any capacity a word can hold   *)
(* (SpecJoin): the file may come from another item type, build or program. *)

JoinFileLens == {0, HEADER_SIZE - 1, HEADER_SIZE + 8, HEADER_SIZE + 128, Word - 1}

InitJoin ==
    /\ build \in Builds
    /\ arg = NoArg
    /\ fs \in { File(len, U8) : len \in JoinFileLens }
    /\ header \in [write : {0}, read : {0}, buffer_size : Words]
    /\ buffer = NoBuffer
    /\ producer = NoHandle
    /\ consumer = NoHandle
    /\ maps = <<>>
    /\ last = Idle
    /\ hist = NoHist
    /\ race = NoRace

\* Producer::join and Consumer::join run the same SharedQueueHeader::join
NextJoin ==
    \/ JoinProducerOf(ItemTypes)
    \/ DropProducer

SpecJoin == InitJoin /\ [][NextJoin]_vars

\* C8: join fails with InvalidBufferSize whenever the stored capacity is 0,
\* is not a power of two, or capacity * item_size + header_size (as numbers)
\* exceeds the mapped size; it returns a handle only when none of these holds.
C8_JoinRejectsInconsistentCapacity ==
    (last.op = "join" /\ last.ret \notin {"NotFound", "Mmap"}) =>
        LET inconsistent ==
                \/ capacity = 0
                \/ capacity \notin PowersOfTwo
                \/ capacity * arg.T.size + HEADER_SIZE > fs.len
        IN  /\ inconsistent => last.ret = "InvalidBufferSize"
            /\ last.ret = "ok" => ~inconsistent

\* C8, where it holds: the statement of C8 whenever capacity * item_size +
\* header_size fits a word.
C8_HoldsWithoutOverflow ==
    capacity * arg.T.size + HEADER_SIZE < Word
        => C8_JoinRejectsInconsistentCapacity

---------------------------------------------------------------------------
(* A region that has been in use for long (SpecWrap): so many items have   *)
(* passed through it that both cursors stand a few steps below the largest *)
(* word.  Every item of the past has been read and released, both handles  *)
(* have synced, and the history starts again from there.                   *)

\* the cursors stand at most WrapLead below 2^WordBits
WrapLead == 3

InitWrap ==
    \E file_size \in TestBufferSizes, start \in (Word - WrapLead) .. (Word - 1) :
        LET items == calculate_buffer_size_in_items(AtomicU64, file_size, "release")
        IN  /\ items.tag = "ok"
            /\ build = "release"
            /\ arg = NoArg
            /\ fs = NoFile
            /\ header = [initialize(items.items) EXCEPT !.write = start,
                                                        !.read = start]
            /\ buffer = [i \in 0 .. (items.items - 1) |-> 0]
            /\ producer = from_header(AtomicU64, header, 0)
            /\ consumer = from_header(AtomicU64, header, 0)
            /\ maps = <<>>
            /\ last = Idle
            /\ hist = NoHist
            /\ race = NoRace

SpecWrap == InitWrap /\ [][Next]_vars

\* C11: while the cursors pass from the largest word to 0, the number of
\* committed and unreleased items, taken as the difference of the header
\* cursors modulo 2^WordBits, stays within 0 .. capacity; reserve returns
\* None exactly when capacity items are outstanding in the Producer's view;
\* successive reserves return successive slots modulo capacity; and try_read
\* returns the items in the order they were reserved, each with its payload.
C11_WrappingCursorsKeepQueueCorrect ==
    /\ (header.write - header.read + Word) % Word = hist.committed - hist.finalized
    /\ hist.committed - hist.finalized \in 0 .. capacity
    /\ reserved - hist.pseen \in 0 .. capacity
    /\ (last.op = "reserve" /\ last.ret = "none") => reserved - hist.pseen = capacity
    /\ (last.op = "reserve" /\ last.ret = "some") =>
           (reserved - 1) - hist.pseen < capacity
    /\ \A k \in 1 .. (reserved - 1) :
           hist.produced[k + 1] = (hist.produced[k] + 1) % capacity
    /\ \A k \in 1 .. Len(hist.consumed) :
           /\ hist.consumed[k].slot = hist.produced[k]
           /\ hist.consumed[k].val = Payload(k)

\* the write cursor has passed 0 and the read cursor has not; the queue is
\* full across the wrap and the Consumer has read across it
C11_Witness ==
    /\ header.write < header.read
    /\ producer.cached_write < producer.cached_read
    /\ consumer.cached_write < consumer.cached_read
    /\ last.op = "reserve" /\ last.ret = "none"
    /\ reserved - hist.pseen = capacity
    /\ Len(hist.consumed) >= 1

---------------------------------------------------------------------------
(* The worked scenario on a queue of capacity 4 (Spec) *)

\* the state the scenario leaves: items 10 and 20 reserved, written and
\* committed, seen by a Consumer sync, read by try_read in that order,
\* released by finalize, and the release seen by a Producer sync; nothing
\* committed or finalized since
C12_ScenarioDone ==
    /\ capacity = 4
    /\ reserved >= 2
    /\ hist.committed = 2 /\ hist.observed = 2
    /\ Len(hist.consumed) = 2
    /\ hist.consumed[1].val = 10 /\ hist.consumed[2].val = 20
    /\ hist.finalized = 2 /\ hist.pseen = 2

\* C12 as stated: after the scenario the two subsequent reserves succeed and
\* return the freed slots (the slots that held 10 and 20), and the reserve
\* after them, with no further finalize, returns None.
C12_SubsequentReservesReuseFreedSlots ==
    (C12_ScenarioDone /\ last.op = "reserve") =>
        IF last.ret = "some"
        THEN /\ reserved \in 3 .. 4
             /\ last.slot \in {hist.produced[1], hist.produced[2]}
        ELSE reserved = 4

\* C12, amended: after the scenario the two subsequent reserves succeed and
\* return slots 2 and 3, which have not been used so far; the two reserves
\* after them succeed as well and return the freed slots, the one that held
\* 10 and then the one that held 20; the reserve after those, with no further
\* finalize, returns None, four items being outstanding again.
C12_SubsequentReservesTakeNextSlots ==
    (C12_ScenarioDone /\ last.op = "reserve") =>
        IF last.ret = "some"
        THEN /\ reserved \in 3 .. 6
             /\ reserved = 3 => last.slot = 2
             /\ reserved = 4 => last.slot = 3
             /\ reserved = 5 => last.slot = hist.produced[1]
             /\ reserved = 6 => last.slot = hist.produced[2]
        ELSE reserved = 6

\* the reserve that returns None after the scenario and four more reserves
C12_Witness ==
    /\ C12_ScenarioDone
    /\ last.op = "reserve" /\ last.ret = "none"
    /\ reserved = 6
    /\ hist.produced = <<0, 1, 2, 3, 0, 1>>

---------------------------------------------------------------------------
(* Who writes which field of the header (Spec) *)

\* C14: a step changes the header's write cursor only if it is a Producer
\* commit and its read cursor only if it is a Consumer finalize; no step
\* changes the capacity; reserve, try_read, Producer sync and Consumer sync
\* leave the whole header unchanged, and change no cached cursor but the
\* caller's own.
C14_HeaderFieldsHaveOneWriter ==
    [][ /\ header'.write # header.write => last'.op = "commit"
        /\ header'.read # header.read => last'.op = "finalize"
        /\ header'.buffer_size = header.buffer_size
        /\ last'.op \in {"reserve", "producer_sync"} =>
               /\ header' = header
               /\ consumer' = consumer
        /\ last'.op \in {"try_read", "consumer_sync"} =>
               /\ header' = header
               /\ producer' = producer
        /\ producer'.buffer_mask = producer.buffer_mask
        /\ consumer'.buffer_mask = consumer.buffer_mask ]_vars

\* a reserve has moved the Producer's cached write cursor ahead of the
\* header's, and a try_read the Consumer's cached read cursor ahead of the
\* header's, after both header cursors have been stored to
C14_Witness ==
    /\ last.op = "reserve" /\ last.ret = "some"
    /\ header.write > 0 /\ header.read > 0
    /\ producer.cached_write # header.write
    /\ consumer.cached_read # header.read

---------------------------------------------------------------------------
(* Fullness is sticky until the Producer syncs (Spec) *)

\* C16: once reserve has returned None, every reserve returns None until the
\* Producer calls sync, whatever try_read, finalize and Consumer sync do in
\* between.
C16_FullUntilProducerSync ==
    (hist.sawfull /\ last.op = "reserve") => last.ret = "none"

\* reserve returns None again after the Consumer has read and finalized
\* items that the Producer has not synced to see
C16_Witness ==
    /\ hist.sawfull
    /\ last.op = "reserve" /\ last.ret = "none"
    /\ hist.finalized > hist.pseen
    /\ wrapping_sub(header.write, header.read) < capacity
    /\ wrapping_sub(producer.cached_write, header.read) < capacity

---------------------------------------------------------------------------
(* Handles that come and go on a long-used region (SpecAged): the file was *)
(* created long ago, its cursors stand a few steps below the largest word, *)
(* every item of the past has been released, and the processes that used   *)
(* it are gone.                                                            *)

InitAged ==
    \E T \in LifeTypes, size \in CreateSizes, start \in (Word - WrapLead) .. (Word - 1) :
        LET items == calculate_buffer_size_in_items(T, size, "release")
        IN  /\ items.tag = "ok"
            /\ build = "release"
            /\ arg = NoArg
            /\ fs = File(size, T)
            /\ header = [initialize(items.items) EXCEPT !.write = start,
                                                        !.read = start]
            /\ buffer = [i \in 0 .. (items.items - 1) |-> 0]
            /\ producer = NoHandle
            /\ consumer = NoHandle
            /\ maps = <<>>
            /\ last = Idle
            /\ hist = NoHist
            /\ race = NoRace

NextAged ==
    \/ JoinProducer
    \/ JoinConsumer
    \/ DropProducer
    \/ DropConsumer
    \/ ReserveUpTo(MaxLifeItems)
    \/ WriteSlot
    \/ Commit
    \/ ProducerSync
    \/ TryRead
    \/ Finalize
    \/ ConsumerSync

SpecAged == InitAged /\ [][NextAged]_vars

\* C15 as stated: no step stores a write cursor or a read cursor lower than
\* the one the header holds, handles dropped and attached again included.
C15_CursorsNeverDecrease ==
    [][header'.write >= header.write /\ header'.read >= header.read]_vars

\* C15, amended: counted modulo 2^WordBits the cursors only move forward:
\* every step advances the header's write cursor and its read cursor by at
\* most capacity positions, and the stored value is lower than the one
\* before only when the cursor passes from the largest word to 0; this holds
\* across handles dropped and attached again by join.
C15_CursorsAdvanceModuloWord ==
    [][ /\ (header'.write - header.write + Word) % Word <= capacity
        /\ (header'.read - header.read + Word) % Word <= capacity
        /\ header'.write < header.write => header.write + capacity >= Word
        /\ header'.read < header.read => header.read + capacity >= Word ]_vars

\* a Producer attached after an earlier handle was dropped has committed
\* across the wrap, and a Consumer has released the item
C15_Witness ==
    /\ header.write = 0 /\ header.read = 0
    /\ last.op = "finalize"
    /\ hist.committed = 1 /\ hist.finalized = 1
    /\ \E id \in DOMAIN maps : maps[id].owner = "none"

---------------------------------------------------------------------------
(* Attaching to a region that holds pending items (SpecLife) *)

\* C17: a join changes neither the file nor the header's cursors and
\* capacity nor any slot, and the handle it returns starts with cached
\* cursors equal to the header's; so the items committed and not released
\* stay counted by the header and keep their payload in their slot, never
\* more than capacity items are outstanding, and a reserve succeeds only
\* when fewer than capacity items are committed and unreleased in the view
\* the Producer attached with.
C17_JoinKeepsPendingState ==
    /\ [][ last'.op = "join" =>
             /\ fs' = fs /\ header' = header /\ buffer' = buffer
             /\ last'.ret = "ok" =>
                    /\ producer' # producer \/ consumer' # consumer
                    /\ \A q \in {producer', consumer'} :
                           q.map = Len(maps') =>
                               /\ q.cached_write = header.write
                               /\ q.cached_read = header.read
                               /\ q.buffer_mask = capacity - 1 ]_vars
    /\ [] /\ wrapping_sub(header.write, header.read) = hist.committed - hist.finalized
          /\ hist.committed - hist.finalized \in 0 .. capacity
          /\ reserved - hist.finalized <= capacity
          /\ \A k \in (hist.finalized + 1) .. hist.committed :
                 buffer[hist.produced[k]] = Payload(k)
          /\ (last.op = "reserve" /\ last.ret = "some") =>
                 (reserved - 1) - hist.pseen < capacity

\* a Producer that joined a full queue, after the handle that filled it was
\* dropped, gets None from its first reserve; the committed item is in place
C17_Witness ==
    /\ last.op = "reserve" /\ last.ret = "none"
    /\ producer.map = 2 /\ maps[1].owner = "none"
    /\ consumer = NoHandle
    /\ capacity = 1
    /\ hist.committed = 1 /\ hist.finalized = 0
    /\ buffer[0] = Payload(1)

---------------------------------------------------------------------------
(* The slots of a handle and the mapping they live in (SpecJoin) *)

\* C18: for every handle returned by create or join, the slots, which start
\* at the header size rounded up to the item's alignment, all lie inside the
\* mapped region: align_up(header_size, item_align) + capacity * item_size
\* <= mapped_size.
C18_SlotsInsideMappedRegion ==
    \A q \in {producer, consumer} :
        q # NoHandle =>
            AlignUp(HEADER_SIZE, q.T.align) + (q.buffer_mask + 1) * q.T.size
                <= maps[q.map].len

\* C18 for the handles whose slots start right after the header (alignment
\* up to the header's own) and whose byte count fits a word
C18_HoldsUnpaddedWithoutOverflow ==
    \A q \in {producer, consumer} :
        (/\ q # NoHandle
         /\ AlignUp(HEADER_SIZE, q.T.align) = HEADER_SIZE
         /\ (q.buffer_mask + 1) * q.T.size + HEADER_SIZE < Word) =>
            HEADER_SIZE + (q.buffer_mask + 1) * q.T.size <= maps[q.map].len

\* join has returned a handle for an item type of alignment 128 on a file of
\* 320 bytes with capacity 1: slot 0 spans bytes 256 to 384
C18_PaddingNotValidated ==
    /\ last.op = "join" /\ last.ret = "ok"
    /\ producer.T = Aligned128
    /\ producer.buffer = 256
    /\ capacity = 1
    /\ fs.len = HEADER_SIZE + 128

---------------------------------------------------------------------------
(* A join that races a create (SpecRace).  Consumer::create runs step by   *)
(* step: calculate, create_new, set_len, mmap, the three stores of         *)
(* initialize, from_header; Producer::join may run between any two steps   *)
(* and be retried.                                                         *)

\* at most MaxRaceMaps calls of mmap by the joining side
MaxRaceMaps == 3

RaceTypes == {U8, AtomicU64, Aligned128}
RaceSizes == {HEADER_SIZE - 1, HEADER_SIZE + 8, 2 * HEADER_SIZE}

InitRace == InitLife

\* SharedQueueHeader::create up to create_file's open: the capacity is
\* calculated, then create_new makes an empty file
CreateFile ==
    /\ race.pc = "none"
    /\ consumer = NoHandle
    /\ \E T \in RaceTypes, size \in RaceSizes :
           \E out \in {create(T, size, "mapped")} :
               /\ arg' = [T |-> T, file_size |-> size]
               /\ IF out.ret = "ok"
                  THEN /\ fs' = File(0, T)
                       /\ header' = NoHeader
                       /\ buffer' = NoBuffer
                       /\ race' = [race EXCEPT !.pc = "created", !.T = T,
                                               !.size = size,
                                               !.items = out.header.buffer_size]
                       /\ last' = Ret("create_new", "ok", NoSlot, 0)
                  ELSE /\ fs' = out.fs
                       /\ header' = out.header
                       /\ buffer' = out.buffer
                       /\ race' = IF out.ret = "InvalidBufferSize"
                                  THEN [race EXCEPT !.failed_create =
                                            Failed(@, T, size, fs.len,
                                                   header.buffer_size)]
                                  ELSE race
                       /\ last' = Ret("create", out.ret, NoSlot, 0)
    /\ UNCHANGED <<build, producer, consumer, maps, hist>>

\* create_file: file.set_len(size); the new bytes read as zero
SetLen ==
    /\ race.pc = "created"
    /\ fs' = File(race.size, race.T)
    /\ buffer' = [i \in 0 .. (race.items - 1) |-> 0]
    /\ race' = [race EXCEPT !.pc = "sized"]
    /\ last' = Ret("set_len", "ok", NoSlot, race.size)
    /\ UNCHANGED <<build, arg, header, producer, consumer, maps, hist>>

\* create_and_map_file: map(&file, size)
MapCreated ==
    /\ race.pc = "sized"
    /\ \E mmap \in MmapOutcomes :
           IF mmap = "mmap_fails"
           THEN /\ race' = [race EXCEPT !.pc = "none"]
                /\ last' = Ret("create", "Mmap", NoSlot, 0)
                /\ UNCHANGED maps
           ELSE /\ race' = [race EXCEPT !.pc = "mapped",
                                        !.pending = {"write", "read", "buffer_size"}]
                /\ maps' = Append(maps, Mapping("consumer", race.size))
                /\ last' = Ret("mmap", "ok", NoSlot, 0)
    /\ arg' = [T |-> race.T, file_size |-> race.size]
    /\ UNCHANGED <<build, fs, header, buffer, producer, consumer, hist>>

\* SharedQueueHeader::initialize: one of its three stores reaches the shared
\* memory.  write and read are Release stores, so write lands before read;
\* buffer_size is a plain store that nothing orders after them, and join
\* reads it with a plain load
InitializeStore ==
    /\ race.pc = "mapped"
    /\ \E f \in race.pending :
           /\ f = "read" => "write" \notin race.pending
           /\ header' = [header EXCEPT ![f] = IF f = "buffer_size"
                                              THEN race.items ELSE 0]
           /\ race' = [race EXCEPT !.pending = @ \ {f}]
           /\ last' = Ret("store", f, NoSlot, 0)
    /\ UNCHANGED <<build, arg, fs, buffer, producer, consumer, maps, hist>>

\* Consumer::create returns: Self::from_header on the initialized header
CreateReturn ==
    /\ race.pc = "mapped"
    /\ race.pending = {}
    /\ consumer' = from_header(race.T, header, Len(maps))
    /\ hist' = HistAtAttach("consumer")
    /\ race' = [race EXCEPT !.pc = "none"]
    /\ last' = Ret("create", "ok", NoSlot, header.buffer_size)
    /\ arg' = [T |-> race.T, file_size |-> race.size]
    /\ UNCHANGED <<build, fs, header, buffer, producer, maps>>

\* Producer::join, at any moment; this side's mmap succeeds unless the file
\* is empty
RaceJoin ==
    /\ producer = NoHandle
    /\ \E T \in RaceTypes :
           /\ JoinUpTo(MaxRaceMaps, "producer", T, "mapped")
           /\ race' = IF join(T, "mapped").ret = "InvalidBufferSize"
                      THEN [race EXCEPT !.failed_join =
                                Failed(@, T, 0, fs.len, header.buffer_size)]
                      ELSE race

NextRace ==
    \/ CreateFile
    \/ SetLen
    \/ MapCreated
    \/ InitializeStore
    \/ CreateReturn
    \/ RaceJoin
    \/ DropProducer
    \/ ReserveUpTo(MaxLifeItems)
    \/ WriteSlot
    \/ Commit

SpecRace == InitRace /\ [][NextRace]_vars

\* C13 as stated: a create(name, size) or a join(name) that has failed with
\* InvalidBufferSize fails with InvalidBufferSize again whenever it is called
\* again with the same arguments.
C13_RetryFailsAgain ==
    /\ (/\ last.op = "create"
        /\ race.failed_create.tries > 0
        /\ race.failed_create.T = arg.T
        /\ race.failed_create.size = arg.file_size) =>
           last.ret = "InvalidBufferSize"
    /\ (/\ last.op = "join"
        /\ race.failed_join.tries > 0
        /\ race.failed_join.T = arg.T) =>
           last.ret = "InvalidBufferSize"

\* C13, amended: a create that has failed with InvalidBufferSize leaves the
\* file system as it found it and fails with InvalidBufferSize again whenever
\* it is called again with the same arguments; a join that has failed with
\* InvalidBufferSize fails so again whenever it is called again for the same
\* item type on a file of the same length and stored capacity.
C13_RetryFailsAgainOnSameFile ==
    /\ (/\ last.op = "create"
        /\ race.failed_create.tries > 0
        /\ race.failed_create.T = arg.T
        /\ race.failed_create.size = arg.file_size) =>
           last.ret = "InvalidBufferSize"
    /\ (last.op = "create" /\ last.ret = "InvalidBufferSize") =>
           /\ race.failed_create.tries > 0
           /\ fs.len = race.failed_create.len
           /\ header.buffer_size = race.failed_create.cap
    /\ (/\ last.op = "join"
        /\ race.failed_join.tries > 0
        /\ race.failed_join.T = arg.T
        /\ race.failed_join.len = fs.len
        /\ race.failed_join.cap = header.buffer_size) =>
           last.ret = "InvalidBufferSize"

\* a create failed twice in a row with InvalidBufferSize and left no file;
\* later a join has failed twice in a row on the file another create has
\* sized and not yet initialized
C13_Witness ==
    /\ last.op = "join" /\ last.ret = "InvalidBufferSize"
    /\ race.failed_join.tries = 2
    /\ race.failed_create.tries = 2
    /\ race.failed_create.len = -1
    /\ race.pc = "sized"

\* C19: when create::<T>(name, size) has returned a handle, a join::<T> of
\* the same name passes the validation and returns a handle with the
\* capacity and the buffer offset of the creator's handle, which are the
\* capacity and the offset calculated from (size, T).
C19_JoinAfterCreateAgrees ==
    (last.op = "join" /\ consumer # NoHandle /\ arg.T = consumer.T) =>
        /\ last.ret = "ok"
        /\ producer # NoHandle
        /\ producer.buffer_mask = consumer.buffer_mask
        /\ producer.buffer = consumer.buffer
        /\ producer.buffer_mask + 1 =
               calculate_buffer_size_in_items(arg.T, fs.len, build).items
        /\ producer.buffer = buffer_offset(arg.T)

\* the round trip for an item type whose alignment pads the header
C19_Witness ==
    /\ last.op = "join" /\ last.ret = "ok"
    /\ consumer # NoHandle
    /\ arg.T = Aligned128 /\ consumer.T = Aligned128
    /\ producer.buffer = 256 /\ consumer.buffer = 256
    /\ producer.buffer_mask = 0

\* C20: a Producer holds a handle from join only when the create of the
\* region has stored both cursors and the capacity, the capacity it got is
\* the one create calculated, and the header's cursors count the items the
\* Producer has committed; join never returns a handle on a header that
\* initialize has not finished.
C20_NoHandleBeforeCreationCompletes ==
    producer # NoHandle =>
        /\ race.pending = {}
        /\ producer.buffer_mask + 1 = race.items
        /\ wrapping_sub(header.write, header.read)
               = hist.committed - hist.finalized

\* the Producer joined while the stores of the cursors were still to land,
\* committed an item, and the store of the write cursor then set it back to 0
C20_CommitLostToInitialize ==
    /\ producer # NoHandle
    /\ race.pending = {}
    /\ hist.committed = 1 /\ hist.finalized = 0
    /\ header.write = 0
    /\ producer.cached_write = 1

=============================================================================
